---- MODULE Spec2Model ----
(***************************************************************************)
(* Model of src/src/app.py: the Streamlit request handler main() and the   *)
(* audio composition process_audio_files().  Durations are integer         *)
(* milliseconds, as pydub's len() and slice indices are.  An AudioSegment  *)
(* is a sequence of pieces; a piece is a run of consecutive bed (or        *)
(* foreground) milliseconds with one gain, an optional fade position and   *)
(* an optional overlaid foreground clip.                                   *)
(* The AudioSegment operators follow pydub 0.25.1 (slicing clamps to the   *)
(* clip, overlay keeps the base's length, + appends without crossfade,      *)
(* fade_out steps the gain once per millisecond).                          *)
(***************************************************************************)
EXTENDS Integers, Sequences, FiniteSets, TLC

\* ---------------------------------------------------------------- bounds
\* Clip lengths decoded in a request: multiples of a step, up to these counts.
MaxBedK == 6
MaxSwooshK == 2
MaxTtsK == 2
\* Script reruns (one per submitted form) explored.
MaxRequests == 2

BedLens == {3000 * k : k \in 1..MaxBedK}
SwooshLens == {700 * k : k \in 1..MaxSwooshK}
TtsLens == {1500 * k : k \in 1..MaxTtsK}

\* ------------------------------------------------- constants of the code
lead_in_ms == 5000
swoosh_gain_db == 5
bed_attenuation_db == 10
post_tts_duration == 2500
fade_duration == 3000

\* ------------------------------------------------------------ path values
Unbound == <<0, "unbound">>
None == <<0, "none">>

Min(a, b) == IF a < b THEN a ELSE b
Max(a, b) == IF a > b THEN a ELSE b

\* ------------------------------------------------- AudioSegment (pydub)
\* A freshly decoded clip of n milliseconds.
RawSegment(src, n) ==
  IF n = 0 THEN <<>>
  ELSE << [src |-> src, off |-> 0, len |-> n, db |-> 0, fadeAt |-> -1,
           top |-> "none", topDb |-> 0, topLen |-> 0] >>

RECURSIVE Duration(_)
Duration(seg) == IF seg = <<>> THEN 0 ELSE Head(seg).len + Duration(Tail(seg))

\* Milliseconds a..b (relative to the piece, 0 <= a < b <= p.len) of piece p.
PieceCut(p, a, b) ==
  [p EXCEPT !.off = p.off + a,
            !.len = b - a,
            !.fadeAt = IF p.fadeAt < 0 THEN -1 ELSE p.fadeAt + a,
            !.topLen = Max(0, Min(p.topLen, b) - a)]

RECURSIVE SubSeg(_, _, _)
SubSeg(seg, s, e) ==
  IF seg = <<>> \/ e <= s \/ e <= 0 THEN <<>>
  ELSE LET p == Head(seg) IN
       IF s >= p.len THEN SubSeg(Tail(seg), s - p.len, e - p.len)
       ELSE <<PieceCut(p, Max(s, 0), Min(e, p.len))>>
            \o SubSeg(Tail(seg), 0, e - p.len)

\* seg[a:b] for a, b >= 0: pydub clamps both ends to len(seg), silently.
Slice(seg, a, b) == SubSeg(seg, Min(a, Duration(seg)), Min(b, Duration(seg)))

\* seg - db
RECURSIVE ApplyGain(_, _)
ApplyGain(seg, db) ==
  IF seg = <<>> THEN <<>>
  ELSE LET p == Head(seg) IN
       <<[p EXCEPT !.db = p.db + db,
                   !.topDb = IF p.top = "none" THEN 0 ELSE p.topDb + db]>>
       \o ApplyGain(Tail(seg), db)

\* base.overlay(top), position 0, no loop: the result is as long as base;
\* what of top does not fit in base is dropped.
RECURSIVE OverlayFrom(_, _, _, _)
OverlayFrom(base, name, tdb, remaining) ==
  IF base = <<>> THEN <<>>
  ELSE LET p == Head(base)
           n == Min(remaining, p.len) IN
       <<(IF n > 0 THEN [p EXCEPT !.top = name, !.topDb = tdb, !.topLen = n]
          ELSE p)>>
       \o OverlayFrom(Tail(base), name, tdb, remaining - n)

Overlay(base, top) ==
  IF top = <<>> THEN base
  ELSE OverlayFrom(base, Head(top).src, Head(top).db, Duration(top))

\* Mutant of Concat: append with pydub's default crossfade of 100 ms, which
\* overlaps the end of a with the start of b.
ConcatCrossfade(a, b) ==
  IF a = <<>> \/ b = <<>> THEN a \o b
  ELSE SubSeg(a, 0, Duration(a) - 100) \o b

\* a + b  (pydub append with crossfade = 0)
Concat(a, b) == a \o b

RECURSIVE WithFade(_, _)
WithFade(seg, i0) ==
  IF seg = <<>> THEN <<>>
  ELSE <<[Head(seg) EXCEPT !.fadeAt = i0]>>
       \o WithFade(Tail(seg), i0 + Head(seg).len)

\* seg.fade_out(duration=d), d > 100 (one gain step per millisecond).
\* With L = len(seg): end = L, start = L - d.  For L >= d the last d
\* milliseconds are faded.  For L < d start is negative, and pydub's
\* negative indexing makes before_fade = seg[:start] and the chunks
\* seg[start + i] wrap around from the end of the clip.
FadeOut(seg, d) ==
  LET L == Duration(seg) IN
  IF L >= d
  THEN Concat(SubSeg(seg, 0, L - d), WithFade(SubSeg(seg, L - d, L), 0))
  ELSE LET bf == IF 2 * L - d >= 0 THEN 2 * L - d ELSE Max(0, 3 * L - d)
           mA == Max(L - d, 0 - 2 * L)
           mB == Max(L - d, 0 - L)
           runA == WithFade(SubSeg(seg, 2 * L + mA, L - 1), mA + d - L)
           runB == WithFade(SubSeg(seg, L + mB, L - 1), mB + d - L)
           runC == WithFade(SubSeg(seg, 0, L), d - L)
       IN Concat(Concat(Concat(SubSeg(seg, 0, bf), runA), runB), runC)

\* ------------------------------------------------------------------ state
VARIABLES pc, req, bgm_path, swoosh_path, tts_path, final_path, temp_files,
          files, played, audio_data,
          ppc, error, bgm, tts, swoosh, initial_bgm, bgm_during_swoosh,
          bgm_during_tts, bgm_after_tts, bgm_fadeout, swoosh_segment,
          tts_with_bgm, combined, output_path

mainVars == <<pc, req, bgm_path, swoosh_path, tts_path, final_path,
              temp_files, files, played, audio_data>>
clipVars == <<bgm, tts, swoosh>>
planVars == <<initial_bgm, bgm_during_swoosh, bgm_during_tts, bgm_after_tts,
              bgm_fadeout>>
mixVars == <<swoosh_segment, tts_with_bgm, combined>>
procVars == <<ppc, error, clipVars, planVars, mixVars, output_path>>
vars == <<mainVars, procVars>>

TempFile(kind) == <<req, kind>>

\* The script starts with no local of main assigned and an empty temp directory.
Init ==
  /\ pc = "form" /\ req = 1 /\ files = {}
  /\ bgm_path = Unbound /\ swoosh_path = Unbound /\ tts_path = Unbound
  /\ final_path = Unbound /\ temp_files = <<>>
  /\ played = FALSE /\ audio_data = <<>>
  /\ ppc = "idle" /\ error = "none"
  /\ bgm = <<>> /\ tts = <<>> /\ swoosh = <<>>
  /\ initial_bgm = <<>> /\ bgm_during_swoosh = <<>> /\ bgm_during_tts = <<>>
  /\ bgm_after_tts = <<>> /\ bgm_fadeout = <<>>
  /\ swoosh_segment = <<>> /\ tts_with_bgm = <<>> /\ combined = <<>>
  /\ output_path = Unbound


\* ------------------------------------- process_audio_files: the regions
InitialBgm(b) == Slice(b, 0, lead_in_ms)

AdjustSwoosh(s) == ApplyGain(s, 0 - swoosh_gain_db)

\* Mutant of BgmDuringSwoosh: the bed under the effect left at its original
\* level.
BgmDuringSwooshUnattenuated(b, s) ==
  Slice(b, lead_in_ms, lead_in_ms + Duration(s))

BgmDuringSwoosh(b, s) ==
  ApplyGain(Slice(b, lead_in_ms, lead_in_ms + Duration(s)), 0 - bed_attenuation_db)

BgmDuringTts(b, s, t) ==
  ApplyGain(Slice(b, lead_in_ms + Duration(s), lead_in_ms + Duration(s) + Duration(t)),
            0 - bed_attenuation_db)

total_length(s, t) == lead_in_ms + Duration(s) + Duration(t)

BgmAfterTts(b, s, t) ==
  ApplyGain(Slice(b, total_length(s, t),
                  total_length(s, t) + post_tts_duration),
            0 - bed_attenuation_db)

\* Mutant of BgmFadeout: the fade-out given the post-roll's duration.
BgmFadeoutShort(b, s, t) ==
  FadeOut(ApplyGain(Slice(b, total_length(s, t) + post_tts_duration,
                          total_length(s, t) + post_tts_duration
                            + fade_duration),
                    0 - bed_attenuation_db),
          post_tts_duration)

BgmFadeout(b, s, t) ==
  FadeOut(ApplyGain(Slice(b, total_length(s, t) + post_tts_duration,
                          total_length(s, t) + post_tts_duration
                            + fade_duration),
                    0 - bed_attenuation_db),
          fade_duration)

SwooshSegment(base, s) == Overlay(base, s)

TtsWithBgm(base, t) == Overlay(base, t)

Combined(ini, sw, sp, post, fade) ==
  Concat(Concat(Concat(Concat(ini, sw), sp), post), fade)

\* Mutant of ErrorResult: the except clause hands back the output file it
\* had already created.
ErrorResultOutputPath(out) == IF out = Unbound THEN None ELSE out

\* What the except clause of process_audio_files returns.
ErrorResult(out) == None

\* ------------------------------------------------------------ main()
\* Mutant of NameErrorAtCheck: swoosh_path pre-assigned, so that a missing
\* effect no longer stops main at the test.
NameErrorBgmOnly == bgm_path = Unbound

\* The statements of main that can raise a NameError at the all([...]) test:
\* bgm_path and swoosh_path are assigned only under status_code == 200.
NameErrorAtCheck == bgm_path = Unbound \/ swoosh_path = Unbound

FetchOutcomes == {"ok", "http_error", "exception"}
TtsOutcomes == {"ok", "http_error", "exception", "write_error"}

\* if submitted and title:
Submit ==
  /\ pc = "form"
  /\ \E ok \in BOOLEAN :
       pc' = IF ok THEN "fetch_bgm" ELSE "done"
  /\ temp_files' = <<>>
  /\ UNCHANGED <<req, bgm_path, swoosh_path, tts_path, final_path, files,
                 played, audio_data, procVars>>

FetchBgm ==
  /\ pc = "fetch_bgm"
  /\ \E o \in FetchOutcomes :
       \/ /\ o = "ok"
          /\ bgm_path' = TempFile("bgm")
          /\ files' = files \cup {TempFile("bgm")}
          /\ temp_files' = Append(temp_files, TempFile("bgm"))
          /\ pc' = "fetch_swoosh"
       \/ /\ o = "http_error"
          /\ pc' = "fetch_swoosh"
          /\ UNCHANGED <<bgm_path, files, temp_files>>
       \/ /\ o = "exception"
          /\ pc' = "crashed"
          /\ UNCHANGED <<bgm_path, files, temp_files>>
  /\ UNCHANGED <<req, swoosh_path, tts_path, final_path, played, audio_data,
                 procVars>>

FetchSwoosh ==
  /\ pc = "fetch_swoosh"
  /\ \E o \in FetchOutcomes :
       \/ /\ o = "ok"
          /\ swoosh_path' = TempFile("swoosh")
          /\ files' = files \cup {TempFile("swoosh")}
          /\ temp_files' = Append(temp_files, TempFile("swoosh"))
          /\ pc' = "tts"
       \/ /\ o = "http_error"
          /\ pc' = "tts"
          /\ UNCHANGED <<swoosh_path, files, temp_files>>
       \/ /\ o = "exception"
          /\ pc' = "crashed"
          /\ UNCHANGED <<swoosh_path, files, temp_files>>
  /\ UNCHANGED <<req, bgm_path, tts_path, final_path, played, audio_data,
                 procVars>>

\* tts_path = text_to_speech(...); if tts_path: temp_files.append(tts_path)
TextToSpeech ==
  /\ pc = "tts"
  /\ \E o \in TtsOutcomes :
       \/ /\ o = "ok"
          /\ tts_path' = TempFile("tts")
          /\ files' = files \cup {TempFile("tts")}
          /\ temp_files' = Append(temp_files, TempFile("tts"))
       \/ /\ o \in {"http_error", "exception"}
          /\ tts_path' = None
          /\ UNCHANGED <<files, temp_files>>
       \/ /\ o = "write_error"
          /\ tts_path' = None
          /\ files' = files \cup {TempFile("tts")}
          /\ UNCHANGED temp_files
  /\ pc' = "check"
  /\ UNCHANGED <<req, bgm_path, swoosh_path, final_path, played, audio_data,
                 procVars>>

\* if all([bgm_path, swoosh_path, tts_path]):
CheckAll ==
  /\ pc = "check"
  /\ IF NameErrorAtCheck
     THEN pc' = "crashed" /\ UNCHANGED ppc
     ELSE IF tts_path # None
          THEN pc' = "process" /\ ppc' = "start"
          ELSE pc' = "cleanup" /\ UNCHANGED ppc
  /\ UNCHANGED <<req, bgm_path, swoosh_path, tts_path, final_path,
                 temp_files, files, played, audio_data, error, clipVars,
                 planVars, mixVars, output_path>>

\* ------------------------------------------------ process_audio_files()
Decode ==
  /\ pc = "process" /\ ppc = "start"
  /\ \E b \in BedLens, s \in SwooshLens, t \in TtsLens :
       /\ bgm' = RawSegment("bgm", b)
       /\ tts' = RawSegment("tts", t)
       /\ swoosh' = RawSegment("swoosh", s)
  /\ ppc' = "decoded"
  /\ UNCHANGED <<mainVars, error, planVars, mixVars, output_path>>

Plan ==
  /\ pc = "process" /\ ppc = "decoded"
  /\ initial_bgm' = InitialBgm(bgm)
  /\ swoosh' = AdjustSwoosh(swoosh)
  /\ bgm_during_swoosh' = BgmDuringSwoosh(bgm, swoosh')
  /\ bgm_during_tts' = BgmDuringTts(bgm, swoosh', tts)
  /\ bgm_after_tts' = BgmAfterTts(bgm, swoosh', tts)
  /\ bgm_fadeout' = BgmFadeout(bgm, swoosh', tts)
  /\ ppc' = "sliced"
  /\ UNCHANGED <<mainVars, error, bgm, tts, mixVars, output_path>>

Mix ==
  /\ pc = "process" /\ ppc = "sliced"
  /\ swoosh_segment' = SwooshSegment(bgm_during_swoosh, swoosh)
  /\ tts_with_bgm' = TtsWithBgm(bgm_during_tts, tts)
  /\ combined' = Combined(initial_bgm, swoosh_segment', tts_with_bgm',
                          bgm_after_tts, bgm_fadeout)
  /\ ppc' = "mixed"
  /\ UNCHANGED <<mainVars, error, clipVars, planVars, output_path>>

\* output_path = tempfile.NamedTemporaryFile(delete=False, suffix='.mp3').name
CreateOutput ==
  /\ pc = "process" /\ ppc = "mixed"
  /\ output_path' = TempFile("out")
  /\ files' = files \cup {TempFile("out")}
  /\ ppc' = "created"
  /\ UNCHANGED <<pc, req, bgm_path, swoosh_path, tts_path, final_path,
                 temp_files, played, audio_data, error, clipVars, planVars,
                 mixVars>>

\* combined.export(...); return output_path
Export ==
  /\ pc = "process" /\ ppc = "created"
  /\ final_path' = output_path
  /\ ppc' = "returned"
  /\ pc' = "after_process"
  /\ UNCHANGED <<req, bgm_path, swoosh_path, tts_path, temp_files, files,
                 played, audio_data, error, clipVars, planVars, mixVars,
                 output_path>>

\* except Exception: st.error(...); return None -- from any statement of
\* the try block.
Raise ==
  /\ pc = "process" /\ ppc \in {"start", "decoded", "sliced", "mixed", "created"}
  /\ error' = ppc
  /\ final_path' = ErrorResult(output_path)
  /\ ppc' = "returned"
  /\ pc' = "after_process"
  /\ UNCHANGED <<req, bgm_path, swoosh_path, tts_path, temp_files, files,
                 played, audio_data, clipVars, planVars, mixVars, output_path>>

\* ------------------------------------------------------ main(), continued
\* if final_path: st.audio(...); st.download_button(...);
\*                temp_files.append(final_path)
Play ==
  /\ pc = "after_process"
  /\ IF final_path # None
     THEN /\ played' = TRUE
          /\ audio_data' = combined
          /\ temp_files' = Append(temp_files, final_path)
     ELSE UNCHANGED <<played, audio_data, temp_files>>
  /\ pc' = "cleanup"
  /\ UNCHANGED <<req, bgm_path, swoosh_path, tts_path, final_path, files,
                 procVars>>

\* for temp_file in temp_files: if os.path.exists(...): os.unlink(...)
Cleanup ==
  /\ pc = "cleanup"
  /\ files' = files \ {temp_files[i] : i \in 1..Len(temp_files)}
  /\ pc' = "done"
  /\ UNCHANGED <<req, bgm_path, swoosh_path, tts_path, final_path,
                 temp_files, played, audio_data, procVars>>

\* Streamlit reruns the script for the next form submission: the locals of
\* main are fresh, the temporary directory is not.
Rerun ==
  /\ pc \in {"done", "crashed"}
  /\ req < MaxRequests
  /\ req' = req + 1
  /\ pc' = "form"
  /\ UNCHANGED files
  /\ bgm_path' = Unbound /\ swoosh_path' = Unbound /\ tts_path' = Unbound
  /\ final_path' = Unbound /\ temp_files' = <<>>
  /\ played' = FALSE /\ audio_data' = <<>>
  /\ ppc' = "idle" /\ error' = "none"
  /\ bgm' = <<>> /\ tts' = <<>> /\ swoosh' = <<>>
  /\ initial_bgm' = <<>> /\ bgm_during_swoosh' = <<>> /\ bgm_during_tts' = <<>>
  /\ bgm_after_tts' = <<>> /\ bgm_fadeout' = <<>>
  /\ swoosh_segment' = <<>> /\ tts_with_bgm' = <<>> /\ combined' = <<>>
  /\ output_path' = Unbound

Next ==
  \/ Submit \/ FetchBgm \/ FetchSwoosh \/ TextToSpeech \/ CheckAll
  \/ Decode \/ Plan \/ Mix \/ CreateOutput \/ Export \/ Raise
  \/ Play \/ Cleanup \/ Rerun

Spec == Init /\ [][Next]_vars

\* ------------------------------------------------- reading a composition
\* The piece of seg that holds millisecond t (0 <= t < Duration(seg)), with
\* the position of t inside it.
RECURSIVE PieceAt(_, _)
PieceAt(seg, t) ==
  IF t < Head(seg).len THEN [piece |-> Head(seg), at |-> t]
  ELSE PieceAt(Tail(seg), t - Head(seg).len)

\* Gain in dB applied to the bed at millisecond t of seg.
BedDbAt(seg, t) == PieceAt(seg, t).piece.db

\* Step of the fade at millisecond t of seg; -1 where no fade applies.
FadeStepAt(seg, t) ==
  LET q == PieceAt(seg, t) IN
  IF q.piece.fadeAt < 0 THEN -1 ELSE q.piece.fadeAt + q.at

\* pydub's fade: at step i of d the amplitude factor is
\* 1 + (db_to_float(-120) - 1) * i / d; here in parts per million, rounded up.
VolumePpm(i, d) ==
  1000000 - ((999999 \div d) * i + ((999999 % d) * i) \div d)

\* Bed milliseconds the planned regions need.
Required(s, t) ==
  lead_in_ms + Duration(s) + Duration(t) + post_tts_duration + fade_duration

Decoded == bgm # <<>>
ValidInput == Decoded /\ Duration(bgm) >= Required(swoosh, tts)
BedShort == Decoded /\ Duration(bgm) < Required(swoosh, tts)

\* process_audio_files has returned an output path to main.
Composed == ppc = "returned" /\ error = "none"
\* The overlays and the concatenation have run.
Mixed ==
  \/ ppc \in {"mixed", "created"}
  \/ ppc = "returned" /\ error \in {"none", "mixed", "created"}
\* The request is over: main ran to its end or an exception left it.
RequestOver == pc \in {"done", "crashed"}

\* --------------------------------------------------------------- claims

\* C1: for a bed at least as long as the planned regions, the composed output
\* lasts exactly lead-in + effect + speech + post-roll + fade-out; the
\* overlays add nothing to the length.
C1_OutputDuration ==
  (Composed /\ ValidInput) =>
     /\ Duration(combined) =
          lead_in_ms + Duration(swoosh) + Duration(tts)
            + post_tts_duration + fade_duration
     /\ Duration(swoosh_segment) = Duration(bgm_during_swoosh)
     /\ Duration(tts_with_bgm) = Duration(bgm_during_tts)

C1_Witness ==
  /\ Composed /\ ValidInput /\ played
  /\ Duration(audio_data) = Required(swoosh, tts)
  /\ swoosh_segment[1].top = "swoosh" /\ tts_with_bgm[1].top = "tts"

\* C2: whenever the bed is shorter than the planned regions, composition
\* fails before any slicing: no slice is made, no output is produced.
C2_ShortBedFailsUpFront ==
  BedShort =>
     /\ ppc \notin {"sliced", "mixed", "created"}
     /\ (ppc = "returned" => error \in {"start", "decoded"})
     /\ initial_bgm = <<>> /\ combined = <<>>
     /\ ~played

\* C3: an overlay requires the foreground clip to fit in its bed region;
\* no merged buffer is returned in which the foreground is cut short.
C3_OverlayWithinBase ==
  Mixed =>
     /\ Duration(swoosh) <= Duration(bgm_during_swoosh)
     /\ Duration(tts) <= Duration(bgm_during_tts)

\* C4: in every composition the regions follow one another on the output
\* timeline (so speech starts at lead-in + effect), and the bed slices
\* feeding them are consecutive: each starts where the previous one ended.
C4_ContiguousRegions ==
  Mixed =>
     /\ combined = Combined(initial_bgm, swoosh_segment, tts_with_bgm,
                            bgm_after_tts, bgm_fadeout)
     /\ Duration(initial_bgm) + Duration(swoosh_segment)
          = lead_in_ms + Duration(swoosh)
     /\ combined # <<>> => combined[1].off = 0
     /\ \A k \in 1..(Len(combined) - 1) :
          combined[k + 1].off = combined[k].off + combined[k].len

\* C5 (as stated): under the effect the bed gain is 0 dB at the first
\* millisecond of the effect region and reaches the attenuation at its last.
C5_RampUnderEffect ==
  (Composed /\ ValidInput /\ Duration(swoosh) > 0) =>
     /\ BedDbAt(combined, lead_in_ms) = 0
     /\ BedDbAt(combined, lead_in_ms + Duration(swoosh) - 1)
          = 0 - bed_attenuation_db

\* C5 (amended): under the effect the bed is attenuated by a hard cut: its
\* gain is the attenuation value, flat, at every millisecond of the effect
\* region.
C5_FlatUnderEffect ==
  Composed =>
     \A t \in Duration(initial_bgm)
                ..(Duration(initial_bgm) + Duration(swoosh_segment) - 1) :
        /\ BedDbAt(combined, t) = 0 - bed_attenuation_db
        /\ FadeStepAt(combined, t) = -1

C5_Witness ==
  /\ Composed /\ ValidInput
  /\ Duration(swoosh_segment) = Duration(swoosh) /\ Duration(swoosh) > 0
  /\ BedDbAt(combined, lead_in_ms - 1) = 0
  /\ BedDbAt(combined, lead_in_ms) = 0 - bed_attenuation_db

\* C6 (as stated): when the effect was not obtained a composition is still
\* produced, lasting lead-in + speech + post-roll + fade-out.
C6_ComposedWithoutEffect ==
  (RequestOver /\ swoosh_path = Unbound /\ bgm_path # Unbound
     /\ tts_path \notin {Unbound, None}) =>
     \/ error # "none"
     \/ /\ played
        /\ Duration(audio_data) =
             lead_in_ms + Duration(tts) + post_tts_duration + fade_duration

\* C6 (amended): when the effect was not obtained no composition is
\* attempted or produced: process_audio_files is never called and nothing
\* is played.
C6_NoEffectNoComposition ==
  swoosh_path = Unbound =>
     /\ ppc = "idle" /\ combined = <<>>
     /\ ~played /\ final_path = Unbound
     /\ pc \notin {"process", "after_process", "cleanup"}

C6_Witness ==
  /\ pc = "crashed" /\ swoosh_path = Unbound
  /\ bgm_path # Unbound /\ tts_path \notin {Unbound, None}

C8_BedGainPerRegion ==
  (pc = "after_process" /\ Composed /\ ValidInput) =>
     LET speech == lead_in_ms + Duration(swoosh)
         fade == total_length(swoosh, tts) + post_tts_duration
     IN
     /\ \A t \in 0..(lead_in_ms - 1) :
          BedDbAt(combined, t) = 0 /\ FadeStepAt(combined, t) = -1
     /\ \A t \in speech..(fade - 1) :
          /\ BedDbAt(combined, t) = 0 - bed_attenuation_db
          /\ FadeStepAt(combined, t) = -1
     /\ Duration(combined) = fade + fade_duration
     /\ \A i \in 0..(fade_duration - 1) :
          /\ BedDbAt(combined, fade + i) = 0 - bed_attenuation_db
          /\ FadeStepAt(combined, fade + i) = i
          /\ VolumePpm(i + 1, fade_duration) < VolumePpm(i, fade_duration)
     /\ VolumePpm(FadeStepAt(combined, fade), fade_duration) = 1000000
     /\ VolumePpm(FadeStepAt(combined, fade + fade_duration - 1) + 1,
                  fade_duration) = 1

C8_Witness ==
  /\ pc = "after_process" /\ Composed /\ ValidInput
  /\ Duration(bgm_fadeout) = fade_duration
  /\ Duration(bgm) > Required(swoosh, tts)

\* C10: at the end of every request no temporary file created during that
\* request still exists.
C10_NoTempFileLeft ==
  RequestOver => {f \in files : f[1] = req} = {}
====
